---- MODULE Spec2Model ----
(***************************************************************************)
(* Model of src/app.py, the daily topic sender: read the configuration,    *)
(* create the history table, ask the generation endpoint for a topic, log  *)
(* it, format / truncate / escape the message and send it to the chat.     *)
(*                                                                         *)
(* Text is a sequence of Unicode code points (Python str), so len(),       *)
(* slicing, rfind(), replace() and strip() are modelled on characters.     *)
(***************************************************************************)
EXTENDS Integers, Sequences, FiniteSets, TLC

\* ------------------------------------------------------------ bounds
\* Number of process invocations explored.
MaxRuns == 2
\* How many characters beyond the limit the longest explored text has.
MaxExtra == 2

\* ------------------------------------------------------------ characters
NL == 10
Space == 32
Quote == 34
Star == 42
LBracket == 91
Backslash == 92
Underscore == 95
Backtick == 96

\* str.strip() with no argument removes these (ASCII and Unicode white space).
Whitespace == {9, 10, 11, 12, 13, 28, 29, 30, 31, 32, 133, 160}

\* The four characters main() escapes for Markdown.
MarkdownSpecials == <<Underscore, Star, Backtick, LBracket>>

\* ensure_telegram_length(text, limit=4000)
Limit == 4000
\* cut = text[:limit-200]
CutMargin == 200

\* "\n\n*(zkráceno — otevři úplnou historii v DB)*"
Marker == <<10, 10, 42, 40, 122, 107, 114, 225, 99, 101, 110, 111, 32, 8212,
            32, 111, 116, 101, 118, 345, 105, 32, 250, 112, 108, 110, 111, 117,
            32, 104, 105, 115, 116, 111, 114, 105, 105, 32, 118, 32, 68, 66,
            41, 42>>

\* ------------------------------------------------------------ Python str
Min2(a, b) == IF a <= b THEN a ELSE b

Max2(a, b) == IF a >= b THEN a ELSE b

\* Largest element of a non-empty finite set of integers.
MaxOf(S) == LET N == {0 - x : x \in S}
            IN  0 - (CHOOSE m \in N : \A k \in N : m <= k)

\* Smallest element of a non-empty finite set of integers.
MinOf(S) == CHOOSE m \in S : \A k \in S : m <= k

\* s[:k], with Python's meaning of a negative stop.
PySliceTo(s, k) ==
    IF k >= 0 THEN SubSeq(s, 1, Min2(k, Len(s)))
              ELSE SubSeq(s, 1, Max2(Len(s) + k, 0))

\* s.rfind(c) for a one-character c: the highest 0-based index, or -1.
RFind(s, c) ==
    LET I == {i \in 1..Len(s) : s[i] = c}
    IN  IF I = {} THEN -1 ELSE MaxOf(I) - 1

\* A filler that is no code point, dropped after the interleaving below.
Pad == 0 - 1

NotPad(x) == x # Pad

\* s.replace(old, new) for a one-character old and a non-empty new: every
\* occurrence of old, left to right, becomes new.
PyReplace(s, old, new) ==
    LET w == Len(new)
        t == [k \in 1..(Len(s) * w) |->
                LET i == ((k - 1) \div w) + 1
                    j == ((k - 1) % w) + 1
                IN  IF s[i] = old THEN new[j]
                    ELSE IF j = 1 THEN s[i] ELSE Pad]
    IN  SelectSeq(t, NotPad)

\* s.strip(): drop leading and trailing white space.
PyStrip(s) ==
    LET I == {i \in 1..Len(s) : s[i] \notin Whitespace}
    IN  IF I = {} THEN <<>> ELSE SubSeq(s, MinOf(I), MaxOf(I))

\* ------------------------------------------------------------ truncation
\* Variant: a text of exactly limit characters is truncated too.
ensure_telegram_length_lt(text, limit) ==
    IF Len(text) < limit THEN text
    ELSE LET cut == PySliceTo(text, limit - CutMargin)
             last_newline == RFind(cut, NL)
         IN  (IF last_newline > 0 THEN PySliceTo(cut, last_newline) ELSE cut)
             \o Marker

\* Variant: the cut is taken at limit, without the margin.
ensure_telegram_length_nomargin(text, limit) ==
    IF Len(text) <= limit THEN text
    ELSE LET cut == PySliceTo(text, limit)
             last_newline == RFind(cut, NL)
         IN  (IF last_newline > 0 THEN PySliceTo(cut, last_newline) ELSE cut)
             \o Marker

\* Variant: a line break at index 0 also triggers the back-up.
ensure_telegram_length_ge0(text, limit) ==
    IF Len(text) <= limit THEN text
    ELSE LET cut == PySliceTo(text, limit - CutMargin)
             last_newline == RFind(cut, NL)
         IN  (IF last_newline >= 0 THEN PySliceTo(cut, last_newline) ELSE cut)
             \o Marker

ensure_telegram_length(text, limit) ==
    IF Len(text) <= limit THEN text
    ELSE LET cut == PySliceTo(text, limit - CutMargin)
             last_newline == RFind(cut, NL)
         IN  (IF last_newline > 0 THEN PySliceTo(cut, last_newline) ELSE cut)
             \o Marker

\* ------------------------------------------------------------ escaping
\* msg.replace("_", "\\_").replace("*", "\\*").replace("`", "\\`").replace("[", "\\[")
\* Variant: the backslash lands after the character.
MarkdownEscape_after(msg) ==
    PyReplace(PyReplace(PyReplace(PyReplace(msg,
        Underscore, <<Underscore, Backslash>>),
        Star, <<Star, Backslash>>),
        Backtick, <<Backtick, Backslash>>),
        LBracket, <<LBracket, Backslash>>)

MarkdownEscape(msg) ==
    PyReplace(PyReplace(PyReplace(PyReplace(msg,
        Underscore, <<Backslash, Underscore>>),
        Star, <<Backslash, Star>>),
        Backtick, <<Backslash, Backtick>>),
        LBracket, <<Backslash, LBracket>>)

\* ------------------------------------------------------------ input texts
\* The letter a, the filling of the long texts.
LetterA == <<97>>[1]

\* A text of n characters: a new line at the 0-based indexes nls, the
\* character sp at the 0-based indexes sps, fill elsewhere.
MkText(n, nls, sps, sp, fill) ==
    SubSeq([i \in 1..n |-> IF (i - 1) \in nls THEN NL
                           ELSE IF (i - 1) \in sps THEN sp ELSE fill], 1, n)

\* ------------------------------------------------------------ JSON
\* A parsed JSON value (what r.json() returns): None, an int, a str, a list
\* or a dict with insertion-ordered string keys.
JNull == [k |-> "null", n |-> 0, s |-> <<>>, items |-> <<>>, keys |-> <<>>]

JNum(n) == [k |-> "num", n |-> n, s |-> <<>>, items |-> <<>>, keys |-> <<>>]

JStr(s) == [k |-> "str", n |-> 0, s |-> s, items |-> <<>>, keys |-> <<>>]

JList(items) == [k |-> "list", n |-> 0, s |-> <<>>, items |-> items, keys |-> <<>>]

JDict(keys, vals) == [k |-> "dict", n |-> 0, s |-> <<>>, items |-> vals, keys |-> keys]

\* The outcome of a subscript: a value, or an exception raised.
Got(v) == [ok |-> TRUE, v |-> v]

Raised == [ok |-> FALSE, v |-> JNull]

\* v[name] for a str key: KeyError on a dict without it, TypeError on
\* anything that is not a dict.
GetKey(v, name) ==
    IF v.k = "dict" /\ \E i \in 1..Len(v.keys) : v.keys[i] = name
    THEN Got(v.items[CHOOSE i \in 1..Len(v.keys) : v.keys[i] = name])
    ELSE Raised

\* v[i] for an int index i >= 0: IndexError past the end of a list or str,
\* KeyError on a dict (its keys are strings), TypeError otherwise.
GetIndex(v, i) ==
    IF v.k = "list" /\ i < Len(v.items) THEN Got(v.items[i + 1])
    ELSE IF v.k = "str" /\ i < Len(v.s) THEN Got(JStr(<<v.s[i + 1]>>))
    ELSE Raised

\* str(n) for n >= 0.
RECURSIVE DecStr(_)
DecStr(n) == IF n < 10 THEN <<48 + n>> ELSE DecStr(n \div 10) \o <<48 + (n % 10)>>

\* json's string encoder with ensure_ascii=False: quote, backslash and the
\* control characters \n \r \t get a backslash escape, the rest is kept.
\* (Model strings hold no other control character.)
JsonEscape(s) ==
    LET t == [k \in 1..(2 * Len(s)) |->
                LET c == s[(k + 1) \div 2]
                    first == (k % 2) = 1
                IN  IF c \in {Quote, Backslash, 10, 13, 9}
                    THEN IF first THEN Backslash
                         ELSE CASE c = 10 -> 110
                                [] c = 13 -> 114
                                [] c = 9 -> 116
                                [] OTHER -> c
                    ELSE IF first THEN c ELSE Pad]
    IN  SelectSeq(t, NotPad)

JsonString(s) == <<Quote>> \o JsonEscape(s) \o <<Quote>>

Indent(level) == [i \in 1..(2 * level) |-> Space]

\* json.dumps(v, ensure_ascii=False, indent=2), at nesting depth level.
RECURSIVE Dumps(_, _)
RECURSIVE DumpItems(_, _, _)
DumpItems(v, i, level) ==
    IF i > Len(v.items) THEN <<>>
    ELSE (IF i > 1 THEN <<44>> ELSE <<>>)
         \o <<NL>> \o Indent(level)
         \o (IF v.k = "dict" THEN JsonString(v.keys[i]) \o <<58, Space>> ELSE <<>>)
         \o Dumps(v.items[i], level)
         \o DumpItems(v, i + 1, level)

Dumps(v, level) ==
    CASE v.k = "null" -> <<110, 117, 108, 108>>
      [] v.k = "num" -> DecStr(v.n)
      [] v.k = "str" -> JsonString(v.s)
      [] v.k = "list" ->
            IF v.items = <<>> THEN <<91, 93>>
            ELSE <<91>> \o DumpItems(v, 1, level + 1)
                 \o <<NL>> \o Indent(level) \o <<93>>
      [] v.k = "dict" ->
            IF v.items = <<>> THEN <<123, 125>>
            ELSE <<123>> \o DumpItems(v, 1, level + 1)
                 \o <<NL>> \o Indent(level) \o <<125>>

\* ------------------------------------------------------------ call_openai
S_choices == <<99, 104, 111, 105, 99, 101, 115>>

S_message == <<109, 101, 115, 115, 97, 103, 101>>

S_content == <<99, 111, 110, 116, 101, 110, 116>>

\* data["choices"][0]["message"]["content"]
ContentPath(data) ==
    LET a == GetKey(data, S_choices)
        b == IF a.ok THEN GetIndex(a.v, 0) ELSE Raised
        c == IF b.ok THEN GetKey(b.v, S_message) ELSE Raised
    IN  IF c.ok THEN GetKey(c.v, S_content) ELSE Raised

\* The value call_openai returns, or the exception that leaves it:
\* requests.post raises on timeout / connection error, raise_for_status on a
\* 4xx / 5xx status, r.json() on a body that is no JSON; the subscript chain
\* falls back to the dump of the whole body; .strip() raises on a content
\* that is not a str.
\* Variant: a missing path raises instead of falling back.
call_openai_nofallback(r) ==
    IF r.kind # "response" THEN [ok |-> FALSE, err |-> r.kind, content |-> <<>>]
    ELSE IF r.status >= 400 THEN [ok |-> FALSE, err |-> "HTTPError", content |-> <<>>]
    ELSE IF ~r.isJson THEN [ok |-> FALSE, err |-> "JSONDecodeError", content |-> <<>>]
    ELSE LET got == ContentPath(r.body)
         IN  IF ~got.ok
             THEN [ok |-> FALSE, err |-> "KeyError", content |-> <<>>]
             ELSE IF got.v.k # "str"
             THEN [ok |-> FALSE, err |-> "AttributeError", content |-> <<>>]
             ELSE [ok |-> TRUE, err |-> "", content |-> PyStrip(got.v.s)]

call_openai(r) ==
    IF r.kind # "response" THEN [ok |-> FALSE, err |-> r.kind, content |-> <<>>]
    ELSE IF r.status >= 400 THEN [ok |-> FALSE, err |-> "HTTPError", content |-> <<>>]
    ELSE IF ~r.isJson THEN [ok |-> FALSE, err |-> "JSONDecodeError", content |-> <<>>]
    ELSE LET got == ContentPath(r.body)
         IN  IF ~got.ok
             THEN [ok |-> TRUE, err |-> "", content |-> PyStrip(Dumps(r.body, 0))]
             ELSE IF got.v.k # "str"
             THEN [ok |-> FALSE, err |-> "AttributeError", content |-> <<>>]
             ELSE [ok |-> TRUE, err |-> "", content |-> PyStrip(got.v.s)]

\* ------------------------------------------------------------ config
\* os.environ.get(name): unset (None), or the string set.
Unset == [set |-> FALSE, val |-> ""]

EnvStr(v) == [set |-> TRUE, val |-> v]

\* Truth value of an Optional[str]: None and "" are false.
Truthy(c) == c.set /\ c.val # ""

\* not (OPENAI_API_KEY and TG_BOT_TOKEN and TG_CHAT_ID) is false
\* Variant: only unset credentials are rejected, empty ones pass.
ConfigOk_notnone(e) ==
    e.OPENAI_API_KEY.set /\ e.TG_BOT_TOKEN.set /\ e.TG_CHAT_ID.set

ConfigOk(e) ==
    Truthy(e.OPENAI_API_KEY) /\ Truthy(e.TG_BOT_TOKEN) /\ Truthy(e.TG_CHAT_ID)

\* os.environ.get("SEND_AS_MARKDOWN", "1") == "1"
SEND_AS_MARKDOWN(e) ==
    (IF e.SEND_AS_MARKDOWN.set THEN e.SEND_AS_MARKDOWN.val ELSE "1") = "1"

\* ------------------------------------------------------------ clock
\* The clock counts minutes from 2026-11-01T00:00 UTC and stays in November.
TwoDigits(n) == <<48 + (n \div 10), 48 + (n % 10)>>

\* strftime('%Y-%m-%d %H:%M') of minute t
YmdHm(t, sep) ==
    <<50, 48, 50, 54, 45, 49, 49, 45>> \o TwoDigits(1 + (t \div 1440))
    \o <<sep>> \o TwoDigits((t % 1440) \div 60) \o <<58>> \o TwoDigits(t % 60)

\* datetime.utcnow().isoformat(), the clock having a whole minute
IsoFormat(t) == YmdHm(t, 84) \o <<58, 48, 48>>

\* f"📚 Denní téma — {now at UTC+1:'%Y-%m-%d %H:%M %Z'}\n\n"
Header(t) ==
    <<128218, 32, 68, 101, 110, 110, 237, 32, 116, 233, 109, 97, 32, 8212, 32>>
    \o YmdHm(t + 60, Space)
    \o <<32, 85, 84, 67, 43, 48, 49, 58, 48, 48, NL, NL>>

\* ------------------------------------------------------------ SQLite
\* CREATE TABLE IF NOT EXISTS topics (...); commit
\* Variant: the table is created anew on every run.
init_db_recreate(d) == [table |-> TRUE, rows |-> <<>>, seq |-> d.seq]

init_db(d) == [d EXCEPT !.table = TRUE]

\* INSERT INTO topics (created_utc, content) VALUES (?, ?); commit.
\* AUTOINCREMENT: the id is one more than the largest ever used.
\* Variant: the insert is never committed.
save_topic_nocommit(d, content, t) == d

save_topic(d, content, t) ==
    [d EXCEPT !.rows = Append(d.rows, [id |-> d.seq + 1,
                                       created_utc |-> IsoFormat(t),
                                       content |-> content]),
              !.seq = d.seq + 1]

\* ------------------------------------------------------------ inputs
\* Values an environment variable holding a credential may have.
CredValues == {Unset, EnvStr(""), EnvStr("secret")}

MarkdownValues == {Unset, EnvStr("0")}

\* Reply texts of the model (the content field, before .strip()).
\* " Téma: a_b*c`d[e\_]" and a second line "f_ " ending in a line break
TextShort == <<32, 84, 233, 109, 97, 58, 32, 97, 95, 98, 42, 99, 96, 100, 91,
               101, 92, 95, 93, 10, 102, 95, 32, 10>>

\* Len(Header(t)), the same for every t of the model.
HeaderLen == Len(Header(0))

\* header + text is exactly at the limit; a quarter of it is underscores.
TextFits ==
    LET n == Limit - HeaderLen
    IN  MkText(n, {}, {i \in 0..(n - 1) : i % 4 = 0}, Underscore, LetterA)

\* header + text is over the limit by MaxExtra, with no line break.
TextLongOneLine == MkText(Limit - HeaderLen + MaxExtra, {}, {}, Star, LetterA)

\* over the limit, its last line break shortly before the cut, underscores.
TextLongLines ==
    LET n == Limit + MaxExtra
    IN  MkText(n, {100, Limit - CutMargin - HeaderLen - 2},
               {i \in 0..(n - 1) : i % 3 = 0}, Underscore, LetterA)

ContentTexts == {TextShort, TextFits, TextLongOneLine, TextLongLines}

WellFormed(c) ==
    JDict(<<S_choices>>,
          <<JList(<<JDict(<<S_message>>, <<JDict(<<S_content>>, <<c>>)>>)>>)>>)

\* "error", "bad \"q\"\n_[", "code"
S_error == <<101, 114, 114, 111, 114>>

S_quoted == <<98, 97, 100, 32, 34, 113, 34, 10, 95, 91>>

S_code == <<99, 111, 100, 101>>

\* Successful replies without the path choices[0].message.content:
\* no choices, choices empty, choices a str, choices[0] without message,
\* message a str, message without content.
MalformedBodies ==
    { JDict(<<S_error, S_code>>,
            <<JDict(<<S_message>>, <<JStr(S_quoted)>>), JNum(429)>>),
      JDict(<<S_choices>>, <<JList(<<>>)>>),
      JDict(<<S_choices>>, <<JStr(S_quoted)>>),
      JDict(<<S_choices>>, <<JList(<<JDict(<<>>, <<>>)>>)>>),
      JDict(<<S_choices>>, <<JList(<<JDict(<<S_message>>, <<JStr(S_content)>>)>>)>>),
      JDict(<<S_choices>>,
            <<JList(<<JDict(<<S_message>>, <<JDict(<<S_code>>, <<JNull>>)>>)>>)>>) }

\* Replies with the path present but a content that is not a str.
NonTextBodies == {WellFormed(JNull)}

Bodies == {WellFormed(JStr(c)) : c \in ContentTexts}
          \cup MalformedBodies \cup NonTextBodies

NoResponse == [kind |-> "none", status |-> 0, isJson |-> FALSE, body |-> JNull]

OpenAIResponses ==
    { [kind |-> "Timeout", status |-> 0, isJson |-> FALSE, body |-> JNull],
      [kind |-> "ConnectionError", status |-> 0, isJson |-> FALSE, body |-> JNull],
      [kind |-> "response", status |-> 500, isJson |-> FALSE, body |-> JNull],
      [kind |-> "response", status |-> 200, isJson |-> FALSE, body |-> JNull] }
    \cup {[kind |-> "response", status |-> 200, isJson |-> TRUE, body |-> b] : b \in Bodies}

\* Outcomes of the sendMessage request: "" is a 2xx reply with a JSON body.
TelegramOutcomes == {"", "Timeout", "ConnectionError", "HTTPError", "JSONDecodeError"}

\* Texts ensure_telegram_length is applied to on its own.
LenTexts ==
    { MkText(n, nls, {}, fill, fill) :
        n \in {0, 1, Limit - CutMargin, Limit - 1} \cup (Limit..(Limit + MaxExtra)),
        nls \in SUBSET {0, 1, Limit - CutMargin - 1, Limit - CutMargin},
        fill \in {LetterA, Star} }

\* ------------------------------------------------------------ state
VARIABLES
    pc,             \* where the process is: "idle" before the first run
    runs,           \* invocations started so far
    now,            \* the clock, in minutes
    env,            \* the environment of the current invocation
    exitCode,       \* -1 while running, else the exit status
    error,          \* the exception that ended the run, "" if none
    db,             \* the SQLite file: table topics, its rows, sqlite_sequence
    resp,           \* the generation endpoint's reply to this run's request
    topic, msg, msg_to_send,    \* locals of main()
    openaiRequests, \* requests this run made to the generation endpoint
    tgRequests,     \* payloads this run posted to the messaging endpoint
    steps,          \* history: the steps this run attempted, in order
    failedAt,       \* history: the step that failed, "" if none
    dbAtStart,      \* history: db when this run started
    okRuns,         \* history: runs whose generation and append both succeeded
    fnText, fnResult, fnCalled  \* ensure_telegram_length called on its own

vars == <<pc, runs, now, env, exitCode, error, db, resp, topic, msg, msg_to_send,
          openaiRequests, tgRequests, steps, failedAt, dbAtStart, okRuns,
          fnText, fnResult, fnCalled>>

fnVars == <<fnText, fnResult, fnCalled>>

locals == <<topic, msg, msg_to_send>>

NoEnv == [OPENAI_API_KEY |-> Unset, TG_BOT_TOKEN |-> Unset, TG_CHAT_ID |-> Unset,
          SEND_AS_MARKDOWN |-> Unset]

EmptyDb == [table |-> FALSE, rows |-> <<>>, seq |-> 0]

Order == <<"Init", "Generate", "Persist", "Format", "Notify", "Done">>

InitPipeline ==
    /\ pc = "idle" /\ runs = 0 /\ now = 390 /\ env = NoEnv
    /\ exitCode = -1 /\ error = ""
    /\ db = EmptyDb /\ dbAtStart = EmptyDb /\ okRuns = 0
    /\ resp = NoResponse
    /\ topic = <<>> /\ msg = <<>> /\ msg_to_send = <<>>
    /\ openaiRequests = 0 /\ tgRequests = <<>>
    /\ steps = <<>> /\ failedAt = ""

Init ==
    /\ InitPipeline
    /\ fnText = <<>> /\ fnResult = <<>> /\ fnCalled = FALSE

\* ------------------------------------------------------------ actions
\* An uncaught exception: traceback, exit status 1.
Fail(step, err) ==
    /\ pc' = "failed" /\ exitCode' = 1 /\ error' = err /\ failedAt' = step

\* The process is started (daily): module level, lines 17-28.
Start ==
    /\ pc \in {"idle", "done", "failed", "aborted"}
    /\ runs < MaxRuns
    /\ \E k \in CredValues, t \in CredValues, c \in CredValues, m \in MarkdownValues :
         LET e == [OPENAI_API_KEY |-> k, TG_BOT_TOKEN |-> t, TG_CHAT_ID |-> c,
                   SEND_AS_MARKDOWN |-> m]
         IN  /\ env' = e
             /\ IF ConfigOk(e)
                THEN pc' = "init_db" /\ exitCode' = -1 /\ error' = ""
                ELSE pc' = "aborted" /\ exitCode' = 1 /\ error' = "SystemExit"
    /\ runs' = runs + 1
    /\ now' = IF runs = 0 THEN now ELSE now + 1440
    /\ dbAtStart' = db
    /\ resp' = NoResponse
    /\ topic' = <<>> /\ msg' = <<>> /\ msg_to_send' = <<>>
    /\ openaiRequests' = 0 /\ tgRequests' = <<>>
    /\ steps' = <<>> /\ failedAt' = ""
    /\ UNCHANGED <<db, okRuns, fnVars>>

\* main(): init_db()
InitDb ==
    /\ pc = "init_db"
    /\ steps' = Append(steps, "Init")
    /\ \/ /\ db' = init_db(db)
          /\ pc' = "generate"
          /\ UNCHANGED <<exitCode, error, failedAt>>
       \/ /\ Fail("Init", "sqlite3.OperationalError")
          /\ UNCHANGED db
    /\ UNCHANGED <<runs, now, env, resp, locals, openaiRequests, tgRequests,
                   dbAtStart, okRuns, fnVars>>

\* call_openai: requests.post(...) is issued
OpenAIRequest ==
    /\ pc = "generate"
    /\ steps' = Append(steps, "Generate")
    /\ openaiRequests' = openaiRequests + 1
    /\ pc' = "gen_wait"
    /\ UNCHANGED <<runs, now, env, exitCode, error, db, resp, locals, tgRequests,
                   failedAt, dbAtStart, okRuns, fnVars>>

\* call_openai: the reply (or the timeout) arrives; main's try / except
\* Variant: a failed generation is tried again.
OpenAIResponse_retry ==
    /\ pc = "gen_wait"
    /\ \E r \in OpenAIResponses :
         LET res == call_openai(r)
         IN  /\ resp' = r
             /\ IF res.ok
                THEN /\ topic' = res.content
                     /\ pc' = "persist"
                     /\ UNCHANGED <<exitCode, error, failedAt>>
                ELSE /\ pc' = "generate"
                     /\ UNCHANGED <<topic, exitCode, error, failedAt>>
    /\ UNCHANGED <<runs, now, env, db, msg, msg_to_send, openaiRequests,
                   tgRequests, steps, dbAtStart, okRuns, fnVars>>

OpenAIResponse ==
    /\ pc = "gen_wait"
    /\ \E r \in OpenAIResponses :
         LET res == call_openai(r)
         IN  /\ resp' = r
             /\ IF res.ok
                THEN /\ topic' = res.content
                     /\ pc' = "persist"
                     /\ UNCHANGED <<exitCode, error, failedAt>>
                ELSE /\ Fail("Generate", res.err)
                     /\ UNCHANGED topic
    /\ UNCHANGED <<runs, now, env, db, msg, msg_to_send, openaiRequests,
                   tgRequests, steps, dbAtStart, okRuns, fnVars>>

\* main(): save_topic(topic)
SaveTopic ==
    /\ pc = "persist"
    /\ steps' = Append(steps, "Persist")
    /\ \/ /\ db.table
          /\ db' = save_topic(db, topic, now)
          /\ okRuns' = okRuns + 1
          /\ pc' = "format"
          /\ UNCHANGED <<exitCode, error, failedAt>>
       \/ /\ Fail("Persist", "sqlite3.OperationalError")
          /\ UNCHANGED <<db, okRuns>>
    /\ UNCHANGED <<runs, now, env, resp, locals, openaiRequests, tgRequests,
                   dbAtStart, fnVars>>

\* main(): header, ensure_telegram_length, the Markdown escape (lines 131-140)
Format ==
    /\ pc = "format"
    /\ steps' = Append(steps, "Format")
    /\ msg' = ensure_telegram_length(Header(now) \o topic, Limit)
    /\ msg_to_send' = IF SEND_AS_MARKDOWN(env) THEN MarkdownEscape(msg') ELSE msg'
    /\ pc' = "notify"
    /\ UNCHANGED <<runs, now, env, exitCode, error, db, resp, topic,
                   openaiRequests, tgRequests, failedAt, dbAtStart, okRuns, fnVars>>

\* send_telegram(msg_to_send): the payload is built and posted
TelegramRequest ==
    /\ pc = "notify"
    /\ steps' = Append(steps, "Notify")
    /\ tgRequests' = Append(tgRequests,
          [chat_id |-> env.TG_CHAT_ID.val, text |-> msg_to_send,
           parse_mode |-> IF SEND_AS_MARKDOWN(env) THEN "Markdown" ELSE ""])
    /\ pc' = "tg_wait"
    /\ UNCHANGED <<runs, now, env, exitCode, error, db, resp, locals,
                   openaiRequests, failedAt, dbAtStart, okRuns, fnVars>>

\* send_telegram: the reply arrives; print, and main returns
TelegramResponse ==
    /\ pc = "tg_wait"
    /\ \E out \in TelegramOutcomes :
         IF out = ""
         THEN /\ pc' = "done" /\ exitCode' = 0
              /\ steps' = Append(steps, "Done")
              /\ UNCHANGED <<error, failedAt>>
         ELSE /\ Fail("Notify", out)
              /\ UNCHANGED steps
    /\ UNCHANGED <<runs, now, env, db, resp, locals, openaiRequests, tgRequests,
                   dbAtStart, okRuns, fnVars>>

Next ==
    \/ Start
    \/ InitDb
    \/ OpenAIRequest
    \/ OpenAIResponse
    \/ SaveTopic
    \/ Format
    \/ TelegramRequest
    \/ TelegramResponse

Spec == Init /\ [][Next]_vars

\* ---- ensure_telegram_length on its own, on the texts of LenTexts
InitLen ==
    /\ InitPipeline
    /\ fnText \in LenTexts /\ fnResult = <<>> /\ fnCalled = FALSE

CallEnsure ==
    /\ ~fnCalled
    /\ fnResult' = ensure_telegram_length(fnText, Limit)
    /\ fnCalled' = TRUE
    /\ UNCHANGED <<pc, runs, now, env, exitCode, error, db, resp, locals,
                   openaiRequests, tgRequests, steps, failedAt, dbAtStart, okRuns,
                   fnText>>

NextLen == CallEnsure

SpecLen == InitLen /\ [][NextLen]_vars

\* ------------------------------------------------------------ properties
Range(q) == {q[i] : i \in 1..Len(q)}

Last(q) == q[Len(q)]

EndsWith(q, suffix) ==
    /\ Len(q) >= Len(suffix)
    /\ SubSeq(q, Len(q) - Len(suffix) + 1, Len(q)) = suffix

IsPrefix(p, q) == Len(p) <= Len(q) /\ SubSeq(q, 1, Len(p)) = p

\* One of the three required credentials is absent or empty.
CredentialMissing(e) ==
    \E c \in {e.OPENAI_API_KEY, e.TG_BOT_TOKEN, e.TG_CHAT_ID} : ~c.set \/ c.val = ""

\* The log holds what it held when the run started plus one row, this run's topic.
ThisRunRowCommitted ==
    /\ Len(db.rows) = Len(dbAtStart.rows) + 1
    /\ SubSeq(db.rows, 1, Len(dbAtStart.rows)) = dbAtStart.rows
    /\ Last(db.rows).content = topic

\* C1: with one of the three required credentials absent or empty the process
\* aborts with a non-zero exit, having made no request to either endpoint,
\* attempted no step and left the history store as it was.
C1_AbortsBeforeAnyOperation ==
    (runs > 0 /\ CredentialMissing(env)) =>
        /\ pc = "aborted" /\ exitCode > 0
        /\ openaiRequests = 0 /\ tgRequests = <<>>
        /\ steps = <<>>
        /\ db = dbAtStart

C1_Witness ==
    /\ pc = "aborted" /\ exitCode = 1
    /\ env.OPENAI_API_KEY = EnvStr("secret") /\ env.TG_BOT_TOKEN = EnvStr("")
    /\ env.TG_CHAT_ID = EnvStr("secret")
    /\ runs = 2 /\ Len(db.rows) = 1

\* C2: the notification request is issued only when this run's topic row is
\* already committed, and when the run then fails at the messaging endpoint
\* the exit is non-zero and the row is still in the log.
C2_RowCommittedBeforeNotify ==
    [][ /\ (Len(tgRequests') > Len(tgRequests)) => ThisRunRowCommitted
        /\ (pc' = "failed" /\ tgRequests' # <<>>) =>
              (exitCode' > 0 /\ ThisRunRowCommitted') ]_vars

C2_Witness ==
    /\ pc = "failed" /\ error = "HTTPError" /\ exitCode = 1
    /\ Len(tgRequests) = 1
    /\ ThisRunRowCommitted

\* C3: a text longer than the limit comes back no longer than the limit and
\* ending with the truncation marker.
C3_TruncatedFitsAndMarked ==
    (fnCalled /\ Len(fnText) > Limit) =>
        (Len(fnResult) <= Limit /\ EndsWith(fnResult, Marker))

C3_Witness ==
    /\ fnCalled /\ Len(fnText) = Limit + 1
    /\ NL \notin Range(fnText)
    /\ Len(fnResult) = Limit - CutMargin + Len(Marker)

\* C4: a text at or under the limit comes back unchanged.
C4_ShortUnchanged ==
    (fnCalled /\ Len(fnText) <= Limit) => fnResult = fnText

C4_Witness ==
    fnCalled /\ Len(fnText) = Limit /\ fnResult = fnText /\ NL \in Range(fnText)

\* The escaped form of m: nothing but backslashes inserted, one before each
\* of the four characters.
Unescape(q) ==
    SelectSeq([i \in 1..Len(q) |->
                 IF q[i] = Backslash /\ i < Len(q) /\ q[i + 1] \in Range(MarkdownSpecials)
                 THEN Pad ELSE q[i]], NotPad)

EscapedFormOf(q, m) ==
    /\ \A i \in 1..Len(q) :
          q[i] \in Range(MarkdownSpecials) => (i > 1 /\ q[i - 1] = Backslash)
    /\ Len(q) = Len(m) + Cardinality({i \in 1..Len(m) : m[i] \in Range(MarkdownSpecials)})
    /\ Unescape(q) = m

\* C5: with markup mode on, the text posted is the truncated message with
\* exactly one backslash inserted before each _ * ` [ and nothing else
\* changed; with markup mode off it is the truncated message itself.
C5_EscapeOnlyInsertsBackslashes ==
    \A i \in 1..Len(tgRequests) :
        IF SEND_AS_MARKDOWN(env)
        THEN EscapedFormOf(tgRequests[i].text, msg)
        ELSE tgRequests[i].text = msg

C5_Witness ==
    /\ Len(tgRequests) = 1
    /\ SEND_AS_MARKDOWN(env)
    /\ Range(MarkdownSpecials) \cup {Backslash} \subseteq Range(msg)
    /\ Len(tgRequests[1].text) = Len(msg) + 6

\* The body holds choices[0].message.content: a dict whose "choices" is a
\* non-empty list whose first element is a dict whose "message" is a dict
\* with a "content" key.
HasKey(v, name) == v.k = "dict" /\ name \in Range(v.keys)

ValueOf(v, name) == v.items[CHOOSE i \in 1..Len(v.keys) : v.keys[i] = name]

HasContentPath(b) ==
    /\ HasKey(b, S_choices)
    /\ ValueOf(b, S_choices).k = "list"
    /\ ValueOf(b, S_choices).items # <<>>
    /\ HasKey(ValueOf(b, S_choices).items[1], S_message)
    /\ HasKey(ValueOf(ValueOf(b, S_choices).items[1], S_message), S_content)

ShapelessReply ==
    /\ resp.kind = "response" /\ resp.status = 200 /\ resp.isJson
    /\ ~HasContentPath(resp.body)

\* What main() posts for a topic t.
Posted(t) ==
    LET m == ensure_telegram_length(Header(now) \o t, Limit)
    IN  IF SEND_AS_MARKDOWN(env) THEN MarkdownEscape(m) ELSE m

\* C6: a successful reply without choices[0].message.content does not fail
\* the generation: the topic is the pretty-printed dump of the whole body,
\* and that is what is appended to the log and goes into the notification.
C6_FallbackToDump ==
    ShapelessReply =>
        /\ failedAt # "Generate"
        /\ topic = Dumps(resp.body, 0)
        /\ "Format" \in Range(steps) =>
              (ThisRunRowCommitted /\ Last(db.rows).content = Dumps(resp.body, 0))
        /\ \A i \in 1..Len(tgRequests) :
              tgRequests[i].text = Posted(Dumps(resp.body, 0))

C6_Witness ==
    /\ pc = "done"
    /\ resp.body = JDict(<<S_choices>>, <<JList(<<>>)>>)
    /\ Last(db.rows).content = <<123, 10, 32, 32, 34, 99, 104, 111, 105, 99, 101,
                                 115, 34, 58, 32, 91, 93, 10, 125>>
    /\ Len(tgRequests) = 1

\* The generation request met a transport failure.
GenerationTransportFailed ==
    resp.kind \in {"Timeout", "ConnectionError"}
    \/ (resp.kind = "response" /\ resp.status >= 400)

\* C7: the steps of a run are attempted in the order Init, Generate, Persist,
\* Format, Notify, Done, each at most once and none after a failed one; at most
\* one request goes to each endpoint; a failed generation leaves no row and no
\* notification, a failed persist no notification; exit 0 is reached only with
\* the topic generated, logged and sent.
C7_LinearNoRetry ==
    /\ IsPrefix(steps, Order)
    /\ openaiRequests <= 1 /\ Len(tgRequests) <= 1
    /\ openaiRequests = (IF "Generate" \in Range(steps) THEN 1 ELSE 0)
    /\ Len(tgRequests) = (IF "Notify" \in Range(steps) THEN 1 ELSE 0)
    /\ pc = "failed" => (steps # <<>> /\ Last(steps) = failedAt /\ exitCode > 0)
    /\ GenerationTransportFailed =>
          (pc = "failed" /\ Last(steps) = "Generate")
    /\ (pc = "failed" /\ Last(steps) = "Generate") =>
          (db.rows = dbAtStart.rows /\ tgRequests = <<>>)
    /\ (pc = "failed" /\ Last(steps) = "Persist") =>
          (db.rows = dbAtStart.rows /\ tgRequests = <<>>)
    /\ (pc = "done" \/ exitCode = 0) =>
          /\ pc = "done" /\ exitCode = 0 /\ steps = Order
          /\ call_openai(resp).ok /\ topic = call_openai(resp).content
          /\ ThisRunRowCommitted
          /\ Len(tgRequests) = 1

C7_Witness ==
    /\ pc = "failed" /\ resp.kind = "Timeout" /\ steps = <<"Init", "Generate">>
    /\ runs = 2 /\ Len(db.rows) = 1

\* C8: the log is append-only over any sequence of runs: every step keeps the
\* rows already committed (init_db on an existing table included), never
\* drops the table, adds at most one row, a run adds at most one row, and the
\* log has as many rows as there were runs whose generation and append both
\* succeeded.
C8_AppendOnly ==
    [][ /\ IsPrefix(db.rows, db'.rows)
        /\ Len(db'.rows) <= Len(db.rows) + 1
        /\ db.table => db'.table
        /\ Len(db'.rows) <= Len(dbAtStart'.rows) + 1
        /\ Len(db'.rows) = okRuns' ]_vars

C8_Witness ==
    /\ runs = 2 /\ pc = "done" /\ Len(db.rows) = 2 /\ okRuns = 2
    /\ db.rows[1].id = 1 /\ db.rows[2].id = 2
    /\ db.rows[1].content # db.rows[2].content

\* The 0-based indexes of the line breaks among the first limit - 200
\* characters of t.
NewlinesInCut(t) ==
    {i \in 0..(Min2(Len(t), Limit - CutMargin) - 1) : t[i + 1] = NL}

\* C9 as claimed: the kept part is the prefix before the last line break of
\* the cut region wherever that line break is, position 0 included, and the
\* hard cut only when the cut region holds no line break.
C9_BacksUpToAnyNewline ==
    (fnCalled /\ Len(fnText) > Limit) =>
        fnResult =
            (IF NewlinesInCut(fnText) # {}
             THEN SubSeq(fnText, 1, MaxOf(NewlinesInCut(fnText)))
             ELSE SubSeq(fnText, 1, Limit - CutMargin)) \o Marker

\* C9 amended: the kept part is the prefix before the last line break of the
\* cut region when that line break is past position 0; the hard cut of
\* limit - 200 characters is kept when the cut region holds no line break or
\* its only line break is at position 0.
C9_BacksUpToNewlinePastStart ==
    (fnCalled /\ Len(fnText) > Limit) =>
        fnResult =
            (IF NewlinesInCut(fnText) \ {0} # {}
             THEN SubSeq(fnText, 1, MaxOf(NewlinesInCut(fnText)))
             ELSE SubSeq(fnText, 1, Limit - CutMargin)) \o Marker

C9_Witness ==
    /\ fnCalled /\ Len(fnText) > Limit
    /\ NewlinesInCut(fnText) = {0}
    /\ Len(fnResult) = Limit - CutMargin + Len(Marker)

\* C10: every text posted to the messaging endpoint is at most the limit long.
C10_PostedWithinLimit ==
    \A i \in 1..Len(tgRequests) : Len(tgRequests[i].text) <= Limit

====
